---------------------------- MODULE Spec2Model ----------------------------
(***************************************************************************)
(* Model of src/value/de.rs: decoding a Value tree through serde's         *)
(* Deserializer / Visitor protocol.                                        *)
(*                                                                         *)
(* A Value is a pair <<tag, payload>>:                                      *)
(*   Null, Bool(b), I64(i), F64(f), String(s), Sequence(vec), Mapping(m).  *)
(* An i64 / u64 is a 64-bit word written as four 16-bit limbs, most        *)
(* significant first (i64 in two's complement).  A string is a sequence of *)
(* characters.  A Mapping is the sequence of its (key, value) pairs in     *)
(* insertion order, keys unique.  An f64 is an opaque token: the decoder   *)
(* only moves it.                                                          *)
(***************************************************************************)
EXTENDS Integers, Sequences, FiniteSets, TLC

VARIABLES
    self,     \* the Value (or the u64) the operation is called on
    entry,    \* the operation the caller invoked on it
    pc,       \* where the decode is: "start", inside a visitor callback, "done"
    site,     \* which deserialize_any handed the decoder to the visitor
    len,      \* `len` local of that deserialize_any
    iter,     \* SeqDeserializer.iter / MapDeserializer.iter: what is left
    value,    \* MapDeserializer.value / VariantDeserializer.value: Option<Value>
    variant,  \* EnumDeserializer.variant
    calls,    \* visitor callbacks invoked so far, with their arguments
    seeded,   \* values handed to a seed so far, in order
    ret,      \* what the last decoder operation returned to the visitor
    got,      \* what the visitor has collected so far (its result on success)
    returned, \* what the visitor's visit_seq / visit_map / visit_unit returned
    hint,     \* what the last size_hint call returned
    keys_since, \* outcomes of the next_key calls since MapDeserializer::new or
              \* the last next_value: "Some", "None" (exhausted), "Err"
    nexts,    \* how many next_element_seed / next_key_seed calls the visitor
              \* has made on the decoder it was given
    result    \* what the top-level operation returned

vars == <<self, entry, pc, site, len, iter, value, variant, calls, seeded, ret, got,
          returned, hint, keys_since, nexts, result>>

---------------------------------------------------------------------------
(* Bounds of the model. *)

\* longest Sequence / largest Mapping given to the decoder
MaxLen == 2
\* the u64 inputs take each limb within MaxDelta of 0, 2^15 and 2^16 - 1
MaxDelta == 1
\* the visitor calls next_element_seed / next_key_seed at most MaxExtra times
\* more than the decoder has items
MaxExtra == 2

---------------------------------------------------------------------------
(* Option and Result *)

None == <<"None", <<>>>>
Some(x) == <<"Some", x>>
Ok(x) == <<"Ok", x>>
Err(e) == <<"Err", e>>
Panic(msg) == <<"Panic", msg>>
IsOk(r) == r[1] = "Ok"
IsErr(r) == r[1] = "Err"

\* a visitor callback and its argument
Call(cb, arg) == <<cb, arg>>

(* The Value type *)

Null == <<"Null", <<>>>>
Bool(b) == <<"Bool", b>>
I64(i) == <<"I64", i>>
F64(f) == <<"F64", f>>
String(s) == <<"String", s>>
Sequence(vec) == <<"Sequence", vec>>
Mapping(m) == <<"Mapping", m>>

(* serde::de::Error constructors *)

invalid_type(unexp, exp) == <<"InvalidType", unexp, exp>>
invalid_value(unexp, exp) == <<"InvalidValue", unexp, exp>>
invalid_length(n, exp) == <<"InvalidLength", n, exp>>
custom(msg) == <<"Custom", msg>>

\* Value::unexpected
unexpected(val) ==
    CASE val[1] = "Null" -> <<"Unit", <<>>>>
      [] val[1] = "Bool" -> <<"Bool", val[2]>>
      [] val[1] = "I64" -> <<"Signed", val[2]>>
      [] val[1] = "F64" -> <<"Float", val[2]>>
      [] val[1] = "String" -> <<"Str", val[2]>>
      [] val[1] = "Sequence" -> <<"Seq", <<>>>>
      [] val[1] = "Mapping" -> <<"Map", <<>>>>

UnexpectedUnitVariant == <<"UnitVariant", <<>>>>
UnexpectedMap == <<"Map", <<>>>>

---------------------------------------------------------------------------
(* Seeds and the two visitors of known code that nested decodes run with.  *)
(* A seed is PhantomData<T>: "Value" decodes with Value::deserialize       *)
(* (ValueVisitor), "Unit" with <() as Deserialize>::deserialize            *)
(* (UnitVisitor: visit_unit succeeds, every other callback is the trait's   *)
(* default and fails with invalid_type).                                   *)

Seeds == {"Value", "Unit"}
VisitorOf(seed) == IF seed = "Value" THEN "ValueVisitor" ELSE "UnitVisitor"
Unit == <<"()", <<>>>>

RECURSIVE Deserialize(_, _)
RECURSIVE deserialize_any(_, _)
RECURSIVE ValueVisitor_visit_seq(_, _)
RECURSIVE ValueVisitor_visit_map(_, _)

\* SeqDeserializer::new
SeqDeserializer_new(vec) == [iter |-> vec]

\* MapDeserializer::new
MapDeserializer_new(map) == [iter |-> map, value |-> None]

\* Result::map(Some)
MapSome(r) == IF IsOk(r) THEN Ok(Some(r[2])) ELSE r

\* next_element_seed taking the element off the cursor only once its seed
\* has succeeded
next_element_seed_retry(de, seed) ==
    IF de.iter # <<>>
    THEN LET r == Deserialize(seed, Head(de.iter))
         IN [de |-> IF IsOk(r) THEN [iter |-> Tail(de.iter)] ELSE de, ret |-> MapSome(r)]
    ELSE [de |-> de, ret |-> Ok(None)]

\* SeqDeserializer::next_element_seed: the decoder after the call and what
\* the call returned
next_element_seed(de, seed) ==
    IF de.iter # <<>>
    THEN [de |-> [iter |-> Tail(de.iter)],
          ret |-> MapSome(Deserialize(seed, Head(de.iter)))]
    ELSE [de |-> de, ret |-> Ok(None)]

\* next_key_seed keeping the key in the slot and decoding the value
next_key_seed_swapped(de, seed) ==
    IF de.iter # <<>>
    THEN [de |-> [iter |-> Tail(de.iter), value |-> Some(Head(de.iter)[1])],
          ret |-> MapSome(Deserialize(seed, Head(de.iter)[2]))]
    ELSE [de |-> de, ret |-> Ok(None)]

\* MapDeserializer::next_key_seed
next_key_seed(de, seed) ==
    IF de.iter # <<>>
    THEN [de |-> [iter |-> Tail(de.iter), value |-> Some(Head(de.iter)[2])],
          ret |-> MapSome(Deserialize(seed, Head(de.iter)[1]))]
    ELSE [de |-> de, ret |-> Ok(None)]

\* next_value_seed with the empty slot reported as an error instead of a panic
next_value_seed_err(de, seed) ==
    IF de.value[1] = "Some"
    THEN [de |-> [de EXCEPT !.value = None],
          ret |-> Deserialize(seed, de.value[2])]
    ELSE [de |-> de, ret |-> Err(custom("visit_value called before visit_key"))]

\* MapDeserializer::next_value_seed
next_value_seed(de, seed) ==
    IF de.value[1] = "Some"
    THEN [de |-> [de EXCEPT !.value = None],
          ret |-> Deserialize(seed, de.value[2])]
    ELSE [de |-> [de EXCEPT !.value = None],
          ret |-> Panic("visit_value called before visit_key")]

\* size_hint taking the iterator's bounds for inexact
size_hint_unknown(de) == None

\* SeqDeserializer::size_hint and MapDeserializer::size_hint: the iterator's
\* size_hint is (n, Some(n)) with n the number of items left
size_hint(de) ==
    LET lower == Len(de.iter)
        upper == Some(Len(de.iter))
    IN IF upper[1] = "Some" /\ lower = upper[2] THEN Some(upper[2]) ELSE None

\* Mapping::insert: an equal key's value is overwritten, a new key is added
\* at the end
Mapping_insert(m, key, val) ==
    IF \E i \in 1..Len(m) : m[i][1] = key
    THEN [i \in 1..Len(m) |-> IF m[i][1] = key THEN <<key, val>> ELSE m[i]]
    ELSE Append(m, <<key, val>>)

\* MapAccess::next_entry with both seeds PhantomData<Value>
next_entry(de) ==
    LET k == next_key_seed(de, "Value")
    IN IF ~IsOk(k.ret) THEN k
       ELSE IF k.ret[2][1] = "None" THEN k
       ELSE LET w == next_value_seed(k.de, "Value")
            IN IF ~IsOk(w.ret) THEN w
               ELSE [de |-> w.de, ret |-> Ok(Some(<<k.ret[2][2], w.ret[2]>>))]

\* visit_seq inserting each element at the front of vec
ValueVisitor_visit_seq_front(de, vec) ==
    LET r == next_element_seed(de, "Value")
    IN IF ~IsOk(r.ret) THEN r
       ELSE IF r.ret[2][1] = "None" THEN [de |-> r.de, ret |-> Ok(Sequence(vec))]
       ELSE ValueVisitor_visit_seq(r.de, <<r.ret[2][2]>> \o vec)

\* ValueVisitor::visit_seq, the loop from `vec` on
ValueVisitor_visit_seq(de, vec) ==
    LET r == next_element_seed(de, "Value")
    IN IF ~IsOk(r.ret) THEN r
       ELSE IF r.ret[2][1] = "None" THEN [de |-> r.de, ret |-> Ok(Sequence(vec))]
       ELSE ValueVisitor_visit_seq(r.de, Append(vec, r.ret[2][2]))

\* ValueVisitor::visit_map, the loop from `values` on
ValueVisitor_visit_map(de, values) ==
    LET r == next_entry(de)
    IN IF ~IsOk(r.ret) THEN r
       ELSE IF r.ret[2][1] = "None" THEN [de |-> r.de, ret |-> Ok(Mapping(values))]
       ELSE ValueVisitor_visit_map(r.de, Mapping_insert(values, r.ret[2][2][1], r.ret[2][2][2]))

\* The scalar callbacks of ValueVisitor and of UnitVisitor.  `val` is the
\* Value the Bridge took the argument from.
visit_scalar(visitor, val) ==
    IF visitor = "ValueVisitor"
    THEN CASE val[1] = "Null" -> Ok(Null)
           [] val[1] = "Bool" -> Ok(Bool(val[2]))
           [] val[1] = "I64" -> Ok(I64(val[2]))
           [] val[1] = "F64" -> Ok(F64(val[2]))
           [] val[1] = "String" -> Ok(String(val[2]))
    ELSE IF val[1] = "Null" THEN Ok(Unit)
         ELSE Err(invalid_type(unexpected(val), "unit"))

\* visitor.visit_seq(&mut deserializer)
visit_seq(visitor, de) ==
    IF visitor = "ValueVisitor"
    THEN ValueVisitor_visit_seq(de, <<>>)
    ELSE [de |-> de, ret |-> Err(invalid_type(<<"Seq", <<>>>>, "unit"))]

\* visitor.visit_map(&mut deserializer)
visit_map(visitor, de) ==
    IF visitor = "ValueVisitor"
    THEN ValueVisitor_visit_map(de, <<>>)
    ELSE [de |-> de, ret |-> Err(invalid_type(<<"Map", <<>>>>, "unit"))]

\* the exhaustion check made before the visitor's result is looked at
CheckRemaining_length_first(r, remaining, n, exp) ==
    IF remaining # 0 THEN Err(invalid_length(n, exp)) ELSE r

\* the exhaustion check reporting what is left instead of the original length
CheckRemaining_left(r, remaining, n, exp) ==
    IF ~IsOk(r) THEN r
    ELSE IF remaining = 0 THEN r
    ELSE Err(invalid_length(remaining, exp))

\* The exhaustion check of Value::deserialize_any and of
\* SeqDeserializer::deserialize_any, after the visitor's callback returned r
\* and left `remaining` items in the decoder
CheckRemaining(r, remaining, n, exp) ==
    IF ~IsOk(r) THEN r
    ELSE IF remaining = 0 THEN r
    ELSE Err(invalid_length(n, exp))

\* every deserialize_any checking for exhaustion, MapDeserializer's too
AfterVisit_all_checked(at, cb, r, remaining, n) ==
    IF cb = "visit_seq"
    THEN CheckRemaining(r, remaining, n, "fewer elements in sequence")
    ELSE CheckRemaining(r, remaining, n, "fewer elements in map")

\* What each deserialize_any returns once the visitor's visit_seq / visit_map
\* has returned r, leaving `remaining` items in the decoder built over n:
\* Value::deserialize_any and SeqDeserializer::deserialize_any check,
\* MapDeserializer::deserialize_any returns the visitor's result as it is
AfterVisit(at, cb, r, remaining, n) ==
    CASE at = "Value" /\ cb = "visit_seq" ->
           CheckRemaining(r, remaining, n, "fewer elements in sequence")
      [] at = "Value" /\ cb = "visit_map" ->
           CheckRemaining(r, remaining, n, "fewer elements in map")
      [] at = "SeqDeserializer" ->
           CheckRemaining(r, remaining, n, "fewer elements in sequence")
      [] at = "MapDeserializer" -> r

\* Value::deserialize_any with ValueVisitor or UnitVisitor
deserialize_any(val, visitor) ==
    CASE val[1] = "Sequence" ->
           LET r == visit_seq(visitor, SeqDeserializer_new(val[2]))
           IN AfterVisit("Value", "visit_seq", r.ret, Len(r.de.iter), Len(val[2]))
      [] val[1] = "Mapping" ->
           LET r == visit_map(visitor, MapDeserializer_new(val[2]))
           IN AfterVisit("Value", "visit_map", r.ret, Len(r.de.iter), Len(val[2]))
      [] OTHER -> visit_scalar(visitor, val)

\* seed.deserialize(value): Value::deserialize is
\* deserializer.deserialize_any(ValueVisitor); <()>::deserialize is
\* deserialize_unit(UnitVisitor), which forwards to deserialize_any
Deserialize(seed, val) == deserialize_any(val, VisitorOf(seed))

\* deserialize_enum without the look at a second entry
deserialize_enum_first_entry(val) ==
    CASE val[1] = "Mapping" ->
           IF val[2] = <<>>
           THEN Err(invalid_value(UnexpectedMap, "map with a single key"))
           ELSE Ok([variant |-> Head(val[2])[1], value |-> Some(Head(val[2])[2])])
      [] val[1] = "String" -> Ok([variant |-> String(val[2]), value |-> None])
      [] OTHER -> Err(invalid_type(unexpected(val), "string or map"))

\* Value::deserialize_enum up to the call of visit_enum: the EnumDeserializer
\* it builds, or the error it returns
deserialize_enum(val) ==
    CASE val[1] = "Mapping" ->
           IF val[2] = <<>>
           THEN Err(invalid_value(UnexpectedMap, "map with a single key"))
           ELSE IF Tail(val[2]) # <<>>
           THEN Err(invalid_value(UnexpectedMap, "map with a single key"))
           ELSE Ok([variant |-> Head(val[2])[1], value |-> Some(Head(val[2])[2])])
      [] val[1] = "String" -> Ok([variant |-> String(val[2]), value |-> None])
      [] OTHER -> Err(invalid_type(unexpected(val), "string or map"))

\* deserialize_option without the Null arm
deserialize_option_always_some(val) == Call("visit_some", val)

\* Value::deserialize_option: the callback it invokes and the argument
deserialize_option(val) ==
    IF val[1] = "Null" THEN Call("visit_none", <<>>) ELSE Call("visit_some", val)

\* unit_variant not looking at the payload
unit_variant_any_payload(payload) == Ok(Unit)

\* VariantDeserializer::unit_variant
unit_variant(payload) ==
    IF payload[1] = "Some" THEN Deserialize("Unit", payload[2]) ELSE Ok(Unit)

\* VariantDeserializer::newtype_variant_seed
newtype_variant_seed(payload, seed) ==
    IF payload[1] = "Some" THEN Deserialize(seed, payload[2])
    ELSE Err(invalid_type(UnexpectedUnitVariant, "newtype variant"))

\* the payload match reporting every mismatch as a missing payload
variant_payload_as_absent(payload, tag, exp) ==
    IF payload[1] = "Some" /\ payload[2][1] = tag THEN Ok(payload[2][2])
    ELSE Err(invalid_type(UnexpectedUnitVariant, exp))

\* VariantDeserializer::tuple_variant and struct_variant up to the call of
\* the decoder's deserialize_any: Ok(the list the decoder is built over) or
\* the error returned
variant_payload(payload, tag, exp) ==
    IF payload[1] = "Some"
    THEN IF payload[2][1] = tag THEN Ok(payload[2][2])
         ELSE Err(invalid_type(unexpected(payload[2]), exp))
    ELSE Err(invalid_type(UnexpectedUnitVariant, exp))

---------------------------------------------------------------------------
(* ValueVisitor::visit_u64.  A u64 is four 16-bit limbs, most significant  *)
(* first; `u as i64` keeps the limbs.                                      *)

\* i64::MAX as u64
I64_MAX == <<32767, 65535, 65535, 65535>>

\* a <= b on 64-bit unsigned words
RECURSIVE U64Leq(_, _)
U64Leq(a, b) ==
    IF a = <<>> THEN TRUE
    ELSE IF Head(a) # Head(b) THEN Head(a) < Head(b)
    ELSE U64Leq(Tail(a), Tail(b))

\* the cast without the range check: u as i64
NumCast_from_wrapping(u) == Some(u)

\* <i64 as NumCast>::from(u): Some(u as i64) if u <= i64::MAX, else None
NumCast_from(u) == IF U64Leq(u, I64_MAX) THEN Some(u) ELSE None

\* u / 10 and u % 10, by long division from the most significant limb:
\* `done` are the quotient limbs so far, `rem` the running remainder
RECURSIVE DivMod10(_, _, _)
DivMod10(u, done, rem) ==
    IF u = <<>> THEN [q |-> done, r |-> rem]
    ELSE LET cur == rem * 65536 + Head(u)
         IN DivMod10(Tail(u), Append(done, cur \div 10), cur % 10)

DigitChar(d) == <<"0", "1", "2", "3", "4", "5", "6", "7", "8", "9">>[d + 1]

\* u64::to_string: the decimal digits of u, most significant first, "0" for 0
RECURSIVE to_string(_)
to_string(u) ==
    LET d == DivMod10(u, <<>>, 0)
    IN IF d.q = <<0, 0, 0, 0>> THEN <<DigitChar(d.r)>>
       ELSE Append(to_string(d.q), DigitChar(d.r))

\* ValueVisitor::visit_u64
visit_u64(u) ==
    LET i == NumCast_from(u)
    IN IF i[1] = "Some" THEN Ok(I64(i[2])) ELSE Ok(String(to_string(u)))

---------------------------------------------------------------------------
(* The Values the decoder is run on. *)

\* a small i64 as a 64-bit word
I64Lit(n) == <<0, 0, 0, n>>

Scalars ==
    {Null, Bool(TRUE), Bool(FALSE), I64(I64Lit(5)), I64(<<65535, 65535, 65535, 65535>>),
     F64("1.5"), String(<<"a">>)}
ElemPool == {Null, String(<<"a">>)}
KeyPool == {Null, String(<<"a">>), String(<<"b">>)}
TagPool == {String(<<"a">>), I64(I64Lit(5))}

\* the sequences over S of length at most n
RECURSIVE SeqsUpTo(_, _)
SeqsUpTo(S, n) ==
    IF n = 0 THEN {<<>>}
    ELSE LET shorter == SeqsUpTo(S, n - 1)
         IN shorter \cup {Append(q, x) : q \in {t \in shorter : Len(t) = n - 1}, x \in S}

\* the Mapping contents of at most n entries: keys in K, unique; values in S
MapsUpTo(K, S, n) ==
    {m \in SeqsUpTo(K \X S, n) : \A i, j \in 1..Len(m) : m[i][1] = m[j][1] => i = j}

\* Sequences and Mappings of scalars
Values1 ==
    {Sequence(q) : q \in SeqsUpTo(ElemPool, MaxLen)}
    \cup {Mapping(m) : m \in MapsUpTo(KeyPool, ElemPool, MaxLen)}

\* one level deeper: a Sequence or a single-entry Mapping around a value
Values2 ==
    {Sequence(<<x>>) : x \in Scalars \cup Values1}
    \cup {Mapping(<< <<k, x>> >>) : k \in TagPool, x \in Scalars}
    \cup {Mapping(<< <<String(<<"a">>), x>> >>) : x \in Values1}

\* and a few trees of depth three
Values3 ==
    {Sequence(<<Mapping(<< <<String(<<"a">>), Sequence(<<Null, Mapping(<<>>)>>)>> >>),
                Sequence(<<>>)>>),
     Mapping(<< <<Sequence(<<Bool(TRUE)>>), Mapping(<< <<Null, Sequence(<<F64("1.5")>>)>> >>)>>,
                <<String(<<"b">>), Null>> >>)}

Inputs == Scalars \cup Values1 \cup Values2 \cup Values3

---------------------------------------------------------------------------
(* The decode as a state machine.  The visitor handed to the top-level     *)
(* operation is any visitor: inside a callback it may call the decoder it   *)
(* was given (next up to MaxExtra times more than there are items), with    *)
(* either seed, keep going after a failed call or after "exhausted", and   *)
(* return success or failure whenever it likes.  On                        *)
(* success it returns what it has collected (got).                          *)

NoRet == [op |-> "none", seed |-> "none", r |-> None]
NoHint == <<"Unasked", <<>>>>

Init ==
    /\ self \in Inputs
    /\ entry = "none"
    /\ pc = "start"
    /\ site = "none"
    /\ len = 0
    /\ iter = <<>>
    /\ value = None
    /\ variant = None
    /\ calls = <<>>
    /\ seeded = <<>>
    /\ ret = NoRet
    /\ got = <<>>
    /\ returned = None
    /\ hint = NoHint
    /\ keys_since = {}
    /\ nexts = 0
    /\ result = None

\* the name of the scalar callback Value::deserialize_any picks
ScalarCallback(val) ==
    CASE val[1] = "Null" -> "visit_unit"
      [] val[1] = "Bool" -> "visit_bool"
      [] val[1] = "I64" -> "visit_i64"
      [] val[1] = "F64" -> "visit_f64"
      [] val[1] = "String" -> "visit_string"

\* Value::deserialize(self): <Value as Deserialize>::deserialize, all of it
DeserializeValue ==
    /\ pc = "start"
    /\ entry' = "Value::deserialize"
    /\ result' = Deserialize("Value", self)
    /\ pc' = "done"
    /\ UNCHANGED <<nexts, self, site, len, iter, value, variant, calls, seeded, ret, got,
                   returned, hint, keys_since>>

\* Value::deserialize_any(self, visitor)
DeserializeAny ==
    /\ pc = "start"
    /\ entry' = "deserialize_any"
    /\ CASE self[1] = "Sequence" ->
              /\ len' = Len(self[2])
              /\ iter' = SeqDeserializer_new(self[2]).iter
              /\ calls' = Append(calls, Call("visit_seq", <<>>))
              /\ pc' = "visit_seq"
              /\ site' = "Value"
              /\ UNCHANGED <<value, got, result>>
         [] self[1] = "Mapping" ->
              /\ len' = Len(self[2])
              /\ iter' = MapDeserializer_new(self[2]).iter
              /\ value' = MapDeserializer_new(self[2]).value
              /\ calls' = Append(calls, Call("visit_map", <<>>))
              /\ pc' = "visit_map"
              /\ site' = "Value"
              /\ UNCHANGED <<got, result>>
         [] OTHER ->
              /\ calls' = Append(calls, Call(ScalarCallback(self), self[2]))
              /\ got' = Append(got, Call(ScalarCallback(self), self[2]))
              /\ result' \in {Ok(got'), Err(custom("visitor"))}
              /\ pc' = "done"
              /\ UNCHANGED <<site, len, iter, value>>
    /\ UNCHANGED <<nexts, self, variant, seeded, ret, returned, hint, keys_since>>


\* Value::deserialize_option(self, visitor), the visitor being serde's
\* OptionVisitor<T>: visit_none is Ok(None), visit_some(d) is
\* T::deserialize(d).map(Some)
DeserializeOption ==
    /\ pc = "start"
    /\ entry' = "deserialize_option"
    /\ calls' = Append(calls, deserialize_option(self))
    /\ IF deserialize_option(self)[1] = "visit_none"
       THEN /\ result' = Ok(None)
            /\ UNCHANGED <<seeded, ret>>
       ELSE \E seed \in Seeds :
            LET d == deserialize_option(self)[2]
            IN /\ seeded' = Append(seeded, d)
               /\ ret' = [op |-> "visit_some", seed |-> seed, r |-> Deserialize(seed, d)]
               /\ result' = MapSome(ret'.r)
    /\ pc' = "done"
    /\ UNCHANGED <<nexts, self, site, len, iter, value, variant, got, returned, hint, keys_since>>

\* Value::deserialize_enum(self, _name, _variants, visitor)
DeserializeEnum ==
    /\ pc = "start"
    /\ entry' = "deserialize_enum"
    /\ LET e == deserialize_enum(self)
       IN IF IsOk(e)
          THEN /\ variant' = Some(e[2].variant)
               /\ value' = e[2].value
               /\ calls' = Append(calls, Call("visit_enum", e[2]))
               /\ pc' = "visit_enum"
               /\ UNCHANGED result
          ELSE /\ result' = e
               /\ pc' = "done"
               /\ UNCHANGED <<variant, value, calls>>
    /\ UNCHANGED <<nexts, self, site, len, iter, seeded, ret, got, returned, hint, keys_since>>

\* EnumDeserializer::variant_seed(self, seed), called by the visitor
VariantSeed ==
    /\ pc = "visit_enum"
    /\ \E seed \in Seeds :
         LET r == Deserialize(seed, variant[2])
         IN /\ seeded' = Append(seeded, variant[2])
            /\ ret' = [op |-> "variant_seed", seed |-> seed, r |-> r]
            /\ got' = IF IsOk(r) THEN Append(got, r[2]) ELSE got
            /\ pc' = IF IsOk(r) THEN "variant" ELSE "spent"
    /\ variant' = None
    /\ UNCHANGED <<nexts, self, entry, site, len, iter, value, calls, returned, hint, keys_since,
                   result>>

\* VariantDeserializer::unit_variant(self)
UnitVariant ==
    /\ pc = "variant"
    /\ ret' = [op |-> "unit_variant", seed |-> "Unit", r |-> unit_variant(value)]
    /\ seeded' = IF value[1] = "Some" THEN Append(seeded, value[2]) ELSE seeded
    /\ value' = None
    /\ pc' = "spent"
    /\ UNCHANGED <<nexts, self, entry, site, len, iter, variant, calls, got, returned, hint,
                   keys_since, result>>

\* VariantDeserializer::newtype_variant_seed(self, seed)
NewtypeVariantSeed ==
    /\ pc = "variant"
    /\ \E seed \in Seeds :
         LET r == newtype_variant_seed(value, seed)
         IN /\ ret' = [op |-> "newtype_variant_seed", seed |-> seed, r |-> r]
            /\ got' = IF IsOk(r) THEN Append(got, r[2]) ELSE got
    /\ seeded' = IF value[1] = "Some" THEN Append(seeded, value[2]) ELSE seeded
    /\ value' = None
    /\ pc' = "spent"
    /\ UNCHANGED <<nexts, self, entry, site, len, iter, variant, calls, returned, hint,
                   keys_since, result>>

\* SeqDeserializer::deserialize_any offering every sequence to visit_seq
SeqDeserializer_callback_always_seq(n) == "visit_seq"

\* SeqDeserializer::deserialize_any: the callback it invokes on a sequence of
\* n elements
SeqDeserializer_callback(n) == IF n = 0 THEN "visit_unit" ELSE "visit_seq"

\* VariantDeserializer::tuple_variant(self, _len, visitor), with
\* SeqDeserializer::deserialize_any up to the visitor's callback
TupleVariant ==
    /\ pc = "variant"
    /\ LET p == variant_payload(value, "Sequence", "tuple variant")
       IN IF ~IsOk(p)
          THEN /\ ret' = [op |-> "tuple_variant", seed |-> "none", r |-> p]
               /\ pc' = "spent"
               /\ UNCHANGED <<site, len, iter, calls, got, returned>>
          ELSE /\ iter' = SeqDeserializer_new(p[2]).iter
               /\ len' = Len(p[2])
               /\ site' = "SeqDeserializer"
               /\ IF SeqDeserializer_callback(Len(p[2])) = "visit_unit"
                  THEN /\ calls' = Append(calls, Call("visit_unit", <<>>))
                       /\ \E r \in {Ok(got), Err(custom("visitor"))} :
                            /\ returned' = r
                            /\ ret' = [op |-> "tuple_variant", seed |-> "none", r |-> r]
                       /\ pc' = "spent"
                  ELSE /\ calls' = Append(calls, Call("visit_seq", <<>>))
                       /\ pc' = "visit_seq"
                       /\ UNCHANGED <<ret, returned>>
               /\ UNCHANGED got
    /\ value' = None
    /\ UNCHANGED <<nexts, self, entry, variant, seeded, hint, keys_since, result>>

\* VariantDeserializer::struct_variant(self, _fields, visitor), with
\* MapDeserializer::deserialize_any up to the visitor's callback
StructVariant ==
    /\ pc = "variant"
    /\ LET p == variant_payload(value, "Mapping", "struct variant")
       IN IF ~IsOk(p)
          THEN /\ ret' = [op |-> "struct_variant", seed |-> "none", r |-> p]
               /\ pc' = "spent"
               /\ value' = None
               /\ UNCHANGED <<site, len, iter, calls>>
          ELSE /\ iter' = MapDeserializer_new(p[2]).iter
               /\ value' = MapDeserializer_new(p[2]).value
               /\ len' = Len(p[2])
               /\ site' = "MapDeserializer"
               /\ calls' = Append(calls, Call("visit_map", <<>>))
               /\ pc' = "visit_map"
               /\ UNCHANGED ret
    /\ UNCHANGED <<nexts, self, entry, variant, seeded, got, returned, hint, keys_since, result>>

\* how a call that returns Result<Option<T>> came out
Outcome(r) == IF IsOk(r) THEN r[2][1] ELSE "Err"

\* SeqDeserializer::next_element_seed(&mut self, seed), called by the visitor
NextElementSeed ==
    /\ pc = "visit_seq"
    /\ nexts < len + MaxExtra
    /\ nexts' = nexts + 1
    /\ \E seed \in Seeds :
         LET n == next_element_seed([iter |-> iter], seed)
         IN /\ iter' = n.de.iter
            /\ ret' = [op |-> "next_element_seed", seed |-> seed, r |-> n.ret]
            /\ got' = IF Outcome(n.ret) = "Some" THEN Append(got, n.ret[2][2]) ELSE got
    /\ seeded' = IF iter # <<>> THEN Append(seeded, Head(iter)) ELSE seeded
    /\ UNCHANGED <<self, entry, pc, site, len, value, variant, calls, returned, hint,
                   keys_since, result>>

\* MapDeserializer::next_key_seed(&mut self, seed), called by the visitor
NextKeySeed ==
    /\ pc = "visit_map"
    /\ nexts < len + MaxExtra
    /\ nexts' = nexts + 1
    /\ \E seed \in Seeds :
         LET n == next_key_seed([iter |-> iter, value |-> value], seed)
         IN /\ iter' = n.de.iter
            /\ value' = n.de.value
            /\ ret' = [op |-> "next_key_seed", seed |-> seed, r |-> n.ret]
            /\ got' = IF Outcome(n.ret) = "Some" THEN Append(got, n.ret[2][2]) ELSE got
            /\ keys_since' = keys_since \cup {Outcome(n.ret)}
    /\ seeded' = IF iter # <<>> THEN Append(seeded, Head(iter)[1]) ELSE seeded
    /\ UNCHANGED <<self, entry, pc, site, len, variant, calls, returned, hint, result>>

\* MapDeserializer::next_value_seed(&mut self, seed), called by the visitor;
\* its panic unwinds the whole decode
NextValueSeed ==
    /\ pc = "visit_map"
    /\ \E seed \in Seeds :
         LET n == next_value_seed([iter |-> iter, value |-> value], seed)
         IN /\ iter' = n.de.iter
            /\ value' = n.de.value
            /\ ret' = [op |-> "next_value_seed", seed |-> seed, r |-> n.ret]
            /\ got' = IF IsOk(n.ret) THEN Append(got, n.ret[2]) ELSE got
            /\ IF n.ret[1] = "Panic"
               THEN pc' = "done" /\ result' = n.ret
               ELSE UNCHANGED <<pc, result>>
    /\ seeded' = IF value[1] = "Some" THEN Append(seeded, value[2]) ELSE seeded
    /\ keys_since' = {}
    /\ UNCHANGED <<nexts, self, entry, site, len, variant, calls, returned, hint>>

\* SeqDeserializer::size_hint(&self) and MapDeserializer::size_hint(&self)
SizeHint ==
    /\ pc \in {"visit_seq", "visit_map"}
    /\ hint' = size_hint([iter |-> iter])
    /\ UNCHANGED <<nexts, self, entry, pc, site, len, iter, value, variant, calls, seeded, ret,
                   got, returned, keys_since, result>>

\* what a visitor callback may return: its value, an error of its own, or
\* the error the last decoder call gave it
VisitorResults == {Ok(got), Err(custom("visitor"))} \cup {e \in {ret.r} : IsErr(e)}

\* visit_seq / visit_map returns, and the deserialize_any that called it
\* finishes: Value::deserialize_any returns to the caller of the decode,
\* SeqDeserializer's and MapDeserializer's to the visitor that called
\* tuple_variant or struct_variant
VisitReturn ==
    /\ pc \in {"visit_seq", "visit_map"}
    /\ \E r \in VisitorResults :
         LET after == AfterVisit(site, pc, r, Len(iter), len)
         IN /\ returned' = r
            /\ IF site = "Value"
               THEN /\ result' = after
                    /\ pc' = "done"
                    /\ UNCHANGED ret
               ELSE /\ ret' = [op |-> IF site = "SeqDeserializer" THEN "tuple_variant"
                                      ELSE "struct_variant",
                               seed |-> "none", r |-> after]
                    /\ pc' = "spent"
                    /\ UNCHANGED result
    /\ UNCHANGED <<nexts, self, entry, site, len, iter, value, variant, calls, seeded, got, hint,
                   keys_since>>

\* visit_enum returns and Value::deserialize_enum returns that
VisitEnumReturn ==
    /\ pc \in {"visit_enum", "variant", "spent"}
    /\ result' \in VisitorResults
    /\ pc' = "done"
    /\ UNCHANGED <<nexts, self, entry, site, len, iter, value, variant, calls, seeded, ret, got,
                   returned, hint, keys_since>>

Next ==
    \/ DeserializeValue
    \/ DeserializeAny
    \/ DeserializeOption
    \/ DeserializeEnum
    \/ VariantSeed
    \/ UnitVariant
    \/ NewtypeVariantSeed
    \/ TupleVariant
    \/ StructVariant
    \/ NextElementSeed
    \/ NextKeySeed
    \/ NextValueSeed
    \/ SizeHint
    \/ VisitReturn
    \/ VisitEnumReturn

Spec == Init /\ [][Next]_vars

---------------------------------------------------------------------------
(* The methods forward_to_deserialize_any! generates for Value, and         *)
(* deserialize_newtype_struct.  Each generated method is                    *)
(*   fn deserialize_x(self, ..., visitor) { self.deserialize_any(visitor) } *)
(* whatever further arguments (name, len, fields) it takes.                 *)

ForwardedMethods ==
    {"deserialize_bool", "deserialize_i8", "deserialize_i16", "deserialize_i32",
     "deserialize_i64", "deserialize_u8", "deserialize_u16", "deserialize_u32",
     "deserialize_u64", "deserialize_f32", "deserialize_f64", "deserialize_char",
     "deserialize_str", "deserialize_string", "deserialize_bytes",
     "deserialize_byte_buf", "deserialize_unit", "deserialize_unit_struct",
     "deserialize_seq", "deserialize_tuple", "deserialize_tuple_struct",
     "deserialize_map", "deserialize_struct", "deserialize_identifier",
     "deserialize_ignored_any"}

\* the callback Value::deserialize_any invokes on val, with its argument
\* (for a Sequence or Mapping the argument is the decoder, kept in iter,
\* value and len)
Callback(val) ==
    CASE val[1] = "Sequence" -> Call("visit_seq", <<>>)
      [] val[1] = "Mapping" -> Call("visit_map", <<>>)
      [] OTHER -> Call(ScalarCallback(val), val[2])

\* the integer methods narrowing an I64 to the width asked for
forward_narrowing(method, val) ==
    IF val[1] = "I64" /\ method \in {"deserialize_i8", "deserialize_u8"}
    THEN Call("visit_i8", val[2][4] % 256)
    ELSE Callback(val)

\* a method generated by forward_to_deserialize_any!: the callback it
\* invokes on val
forward_to_deserialize_any(method, val) == Callback(val)

\* Value::deserialize_bool, ..., Value::deserialize_ignored_any
DeserializeForwarded ==
    /\ pc = "start"
    /\ \E method \in ForwardedMethods :
         LET cb == forward_to_deserialize_any(method, self)
         IN /\ entry' = method
            /\ calls' = Append(calls, cb)
            /\ CASE cb[1] = "visit_seq" ->
                      /\ len' = Len(self[2])
                      /\ iter' = SeqDeserializer_new(self[2]).iter
                      /\ pc' = "visit_seq"
                      /\ site' = "Value"
                      /\ UNCHANGED <<value, got, result>>
                 [] cb[1] = "visit_map" ->
                      /\ len' = Len(self[2])
                      /\ iter' = MapDeserializer_new(self[2]).iter
                      /\ value' = MapDeserializer_new(self[2]).value
                      /\ pc' = "visit_map"
                      /\ site' = "Value"
                      /\ UNCHANGED <<got, result>>
                 [] OTHER ->
                      /\ got' = Append(got, cb)
                      /\ result' \in {Ok(got'), Err(custom("visitor"))}
                      /\ pc' = "done"
                      /\ UNCHANGED <<site, len, iter, value>>
    /\ UNCHANGED <<nexts, self, variant, seeded, ret, returned, hint, keys_since>>

\* Value::deserialize_newtype_struct(self, _name, visitor), the visitor being
\* a newtype wrapper's: visit_newtype_struct(d) is T::deserialize(d)
DeserializeNewtypeStruct ==
    /\ pc = "start"
    /\ entry' = "deserialize_newtype_struct"
    /\ calls' = Append(calls, Call("visit_newtype_struct", self))
    /\ \E seed \in Seeds :
         /\ seeded' = Append(seeded, self)
         /\ ret' = [op |-> "visit_newtype_struct", seed |-> seed,
                    r |-> Deserialize(seed, self)]
         /\ result' = ret'.r
    /\ pc' = "done"
    /\ UNCHANGED <<nexts, self, site, len, iter, value, variant, got, returned, hint,
                   keys_since>>

\* the Values these methods are run on: every scalar, and the Sequences and
\* Mappings of at most one item
HintInputs ==
    Scalars \cup {Sequence(q) : q \in SeqsUpTo(ElemPool, 1)}
    \cup {Mapping(m) : m \in MapsUpTo(KeyPool, ElemPool, 1)}

InitHint ==
    /\ self \in HintInputs
    /\ entry = "none"
    /\ pc = "start"
    /\ site = "none"
    /\ len = 0
    /\ iter = <<>>
    /\ value = None
    /\ variant = None
    /\ calls = <<>>
    /\ seeded = <<>>
    /\ ret = NoRet
    /\ got = <<>>
    /\ returned = None
    /\ hint = NoHint
    /\ keys_since = {}
    /\ nexts = 0
    /\ result = None

NextHint ==
    \/ DeserializeForwarded
    \/ DeserializeAny
    \/ DeserializeNewtypeStruct
    \/ NextElementSeed
    \/ NextKeySeed
    \/ NextValueSeed
    \/ SizeHint
    \/ VisitReturn

SpecHint == InitHint /\ [][NextHint]_vars

---------------------------------------------------------------------------
(* Decoding into the Value target, counted: how many times a Value is       *)
(* handed to Value::deserialize while ValueVisitor walks a tree, the         *)
(* top-level request included.  visit_seq and visit_map ask the decoder      *)
(* until it answers None.                                                    *)

RECURSIVE Requests(_)
RECURSIVE visit_seq_requests(_)
RECURSIVE visit_map_requests(_)

\* the requests ValueVisitor::visit_seq makes from the decoder de on
visit_seq_requests(de) ==
    LET r == next_element_seed(de, "Value")
    IN IF ~IsOk(r.ret) THEN 1
       ELSE IF r.ret[2][1] = "None" THEN 0
       ELSE Requests(Head(de.iter)) + visit_seq_requests(r.de)

\* the requests ValueVisitor::visit_map makes from the decoder de on
visit_map_requests(de) ==
    LET k == next_key_seed(de, "Value")
    IN IF ~IsOk(k.ret) THEN 1
       ELSE IF k.ret[2][1] = "None" THEN 0
       ELSE LET w == next_value_seed(k.de, "Value")
            IN Requests(Head(de.iter)[1])
               + (IF k.de.value[1] = "Some" THEN Requests(k.de.value[2]) ELSE 0)
               + visit_map_requests(w.de)

\* Value::deserialize(val)
Requests(val) ==
    1 + CASE val[1] = "Sequence" -> visit_seq_requests(SeqDeserializer_new(val[2]))
          [] val[1] = "Mapping" -> visit_map_requests(MapDeserializer_new(val[2]))
          [] OTHER -> 0

(* A visitor that loops until exhausted, as ValueVisitor::visit_seq and      *)
(* visit_map do: it goes on asking while the decoder has not answered None   *)
(* to a next or next_key, and returns once it has.                           *)

\* a next / next_key call has found the cursor empty (`None => Ok(None)`)
ExhaustedSeen ==
    /\ pc \in {"visit_seq", "visit_map"}
    /\ iter = <<>>
    /\ nexts > len

\* `while let Some(..) = next()`: the next call of the loop
AskWhileNotExhausted == (NextElementSeed \/ NextKeySeed) /\ ~ExhaustedSeen

\* the return that follows the loop
ReturnOnceExhausted == VisitReturn /\ ExhaustedSeen

\* the Values the loop is run on
LoopInputs ==
    Scalars \cup {Sequence(q) : q \in SeqsUpTo(ElemPool, MaxLen)}
    \cup {Mapping(m) : m \in MapsUpTo({Null, String(<<"a">>)}, {Null}, MaxLen)}
    \cup Values3

InitLoop ==
    /\ self \in LoopInputs
    /\ entry = "none"
    /\ pc = "start"
    /\ site = "none"
    /\ len = 0
    /\ iter = <<>>
    /\ value = None
    /\ variant = None
    /\ calls = <<>>
    /\ seeded = <<>>
    /\ ret = NoRet
    /\ got = <<>>
    /\ returned = None
    /\ hint = NoHint
    /\ keys_since = {}
    /\ nexts = 0
    /\ result = None

NextLoop ==
    \/ DeserializeValue
    \/ DeserializeAny
    \/ NextElementSeed
    \/ NextKeySeed
    \/ NextValueSeed
    \/ VisitReturn

\* the decode is started (Value::deserialize is over in its one step), the
\* visitor asks while it has not been told exhausted, and returns once it has
SpecLoop ==
    /\ InitLoop
    /\ [][NextLoop]_vars
    /\ WF_vars(DeserializeAny)
    /\ WF_vars(AskWhileNotExhausted)
    /\ WF_vars(ReturnOnceExhausted)

---------------------------------------------------------------------------
(* ValueVisitor::visit_u64 on its own: a deserializer other than the ones   *)
(* of this file calls it with a u64.                                        *)

\* the limbs tried: within MaxDelta of 0, of 2^15 and of 2^16 - 1
LimbChoices ==
    (0..MaxDelta) \cup ((32768 - MaxDelta)..(32768 + MaxDelta))
    \cup ((65535 - MaxDelta)..65535)

U64Inputs == LimbChoices \X LimbChoices \X LimbChoices \X LimbChoices

InitU64 ==
    /\ self \in U64Inputs
    /\ entry = "none"
    /\ pc = "start"
    /\ site = "none"
    /\ len = 0
    /\ iter = <<>>
    /\ value = None
    /\ variant = None
    /\ calls = <<>>
    /\ seeded = <<>>
    /\ ret = NoRet
    /\ got = <<>>
    /\ returned = None
    /\ hint = NoHint
    /\ keys_since = {}
    /\ nexts = 0
    /\ result = None

\* ValueVisitor.visit_u64(self)
VisitU64 ==
    /\ pc = "start"
    /\ entry' = "visit_u64"
    /\ result' = visit_u64(self)
    /\ pc' = "done"
    /\ UNCHANGED <<nexts, self, site, len, iter, value, variant, calls, seeded, ret, got,
                   returned, hint, keys_since>>

NextU64 == VisitU64

SpecU64 == InitU64 /\ [][NextU64]_vars

---------------------------------------------------------------------------
(* What the claims are stated with. *)

\* the diagnostic token the specification gives each Value shape
Classified(val) ==
    CASE val[1] = "Null" -> <<"Unit", <<>>>>
      [] val[1] = "Bool" -> <<"Bool", val[2]>>
      [] val[1] = "I64" -> <<"Signed", val[2]>>
      [] val[1] = "F64" -> <<"Float", val[2]>>
      [] val[1] = "String" -> <<"Str", val[2]>>
      [] val[1] = "Sequence" -> <<"Seq", <<>>>>
      [] val[1] = "Mapping" -> <<"Map", <<>>>>

\* the tag and the payload an externally tagged enum input carries
EnumTag == IF self[1] = "Mapping" THEN self[2][1][1] ELSE self
EnumPayload == IF self[1] = "Mapping" THEN Some(self[2][1][2]) ELSE None

\* whether the result r is an error of the given kind
IsErrOfKind(r, kind) == r[1] = "Err" /\ r[2][1] = kind

\* how many items of the input the decoder's cursor has handed out
Taken == len - Len(iter)

---------------------------------------------------------------------------
\* C1: decoding any Value tree (every scalar, empty and non-empty Sequences
\* and Mappings with unique keys, nested) into the generic Value target
\* succeeds and returns a Value equal to the input, element order and entry
\* order included.
C1_RoundTrip ==
    (entry = "Value::deserialize" /\ pc = "done") => result = Ok(self)

C1_Witness ==
    /\ entry = "Value::deserialize"
    /\ pc = "done"
    /\ self \in Values3
    /\ self[1] = "Mapping"
    /\ Len(self[2]) = 2
    /\ result = Ok(self)

\* C2: for a Sequence or Mapping of n items decoded through
\* Value::deserialize_any, a visitor callback that returns success after k
\* items were taken makes the decode return the visitor's result when k = n
\* and InvalidLength carrying n (with the sequence or map hint) when k < n;
\* the sequence (map) callback is the one callback invoked, for an empty
\* Sequence too.
C2_Arity ==
    (entry = "deserialize_any" /\ self[1] \in {"Sequence", "Mapping"}) =>
        /\ calls = <<Call(IF self[1] = "Sequence" THEN "visit_seq" ELSE "visit_map", <<>>)>>
        /\ len = Len(self[2])
        /\ (pc = "done" /\ IsOk(returned)) =>
              IF Taken = Len(self[2])
              THEN result = returned /\ returned = Ok(got)
              ELSE /\ Taken < Len(self[2])
                   /\ result = Err(<<"InvalidLength", Len(self[2]),
                                     IF self[1] = "Sequence"
                                     THEN "fewer elements in sequence"
                                     ELSE "fewer elements in map">>)

C2_Witness ==
    /\ entry = "deserialize_any"
    /\ pc = "done"
    /\ self[1] = "Sequence"
    /\ Len(self[2]) = 2
    /\ Taken = 1
    /\ IsOk(returned)
    /\ result = Err(<<"InvalidLength", 2, "fewer elements in sequence">>)

\* C3: on every path that hands a Sequence or Mapping to a visitor (the
\* Bridge's two arms, a tuple-variant payload, a struct-variant payload), a
\* callback that returns success while items of the source are left makes
\* that path return an InvalidLength error, never a success.
C3_NoSilentDrop ==
    (IsOk(returned) /\ Len(iter) > 0) =>
        IsErrOfKind(IF site = "Value" THEN result ELSE ret.r, "InvalidLength")

\* C4: deserialize_enum invokes visit_enum exactly for a String (tag = the
\* string, no payload) and for a Mapping of one entry (tag = its key,
\* payload = its value); a Mapping of zero or of two or more entries returns
\* InvalidValue expecting "map with a single key", every other shape
\* InvalidType with the value's classification expecting "string or map",
\* and in both error cases no visitor callback and no seed is invoked.
C4_EnumTag ==
    entry = "deserialize_enum" =>
        CASE self[1] = "String" ->
               /\ calls[1] = Call("visit_enum", [variant |-> self, value |-> None])
               /\ (seeded # <<>> => seeded[1] = self)
          [] self[1] = "Mapping" /\ Len(self[2]) = 1 ->
               /\ calls[1] = Call("visit_enum", [variant |-> self[2][1][1],
                                                 value |-> Some(self[2][1][2])])
               /\ (seeded # <<>> => seeded[1] = self[2][1][1])
          [] self[1] = "Mapping" /\ Len(self[2]) # 1 ->
               /\ pc = "done"
               /\ calls = <<>>
               /\ seeded = <<>>
               /\ result = Err(<<"InvalidValue", <<"Map", <<>>>>, "map with a single key">>)
          [] OTHER ->
               /\ pc = "done"
               /\ calls = <<>>
               /\ seeded = <<>>
               /\ result = Err(<<"InvalidType", Classified(self), "string or map">>)

C4_Witness ==
    /\ entry = "deserialize_enum"
    /\ self[1] = "Mapping"
    /\ Len(self[2]) = 2
    /\ calls = <<>>
    /\ result = Err(<<"InvalidValue", <<"Map", <<>>>>, "map with a single key">>)

\* C5 as stated: a next_value call not preceded, since the decoder was built
\* or since the previous next_value, by a next_key that returned a key
\* panics.
C5_PanicUnlessKeyReturned ==
    [][(NextValueSeed /\ "Some" \notin keys_since) => result'[1] = "Panic"]_vars

\* C5, amended: a next_value call not preceded, since the decoder was built
\* or since the previous next_value, by a next_key that took a pair from the
\* cursor (whether or not the key's seed then succeeded) panics: it returns
\* no error and no decoded value, and the decode ends there.
C5_PanicUnlessPairTaken ==
    [][(NextValueSeed /\ keys_since \cap {"Some", "Err"} = {}) =>
          /\ result'[1] = "Panic"
          /\ ret'.r[1] = "Panic"
          /\ pc' = "done"
          /\ got' = got
          /\ seeded' = seeded]_vars

\* a second consecutive next_value, after a key and its value were decoded
C5_Witness ==
    /\ result[1] = "Panic"
    /\ ret.op = "next_value_seed"
    /\ Len(got) = 2
    /\ Len(seeded) = 2
    /\ site = "Value"

\* C6: unit_variant succeeds when the payload is absent or is Null, and
\* fails with a type error for every other payload, empty Sequences and
\* Mappings included.
C6_UnitVariant ==
    ret.op = "unit_variant" =>
        IF EnumPayload = None \/ EnumPayload = Some(Null)
        THEN ret.r = Ok(Unit)
        ELSE IsErrOfKind(ret.r, "InvalidType")

C6_Witness ==
    /\ ret.op = "unit_variant"
    /\ EnumPayload = Some(Sequence(<<>>))
    /\ IsErrOfKind(ret.r, "InvalidType")

\* the expectation each variant operation names
Expectation(op) ==
    CASE op = "newtype_variant_seed" -> "newtype variant"
      [] op = "tuple_variant" -> "tuple variant"
      [] op = "struct_variant" -> "struct variant"

\* C7: with no payload, newtype_variant, tuple_variant and struct_variant
\* fail with InvalidType(UnitVariant) naming their own expectation;
\* tuple_variant with a payload that is no Sequence and struct_variant with a
\* payload that is no Mapping fail with InvalidType carrying the payload's
\* classification; in these cases no visitor callback and no seed runs after
\* the tag's.  newtype_variant with a payload hands it unchanged to the seed.
C7_PayloadShape ==
    /\ (ret.op \in {"newtype_variant_seed", "tuple_variant", "struct_variant"}
          /\ EnumPayload = None) =>
            /\ ret.r = Err(<<"InvalidType", <<"UnitVariant", <<>>>>, Expectation(ret.op)>>)
            /\ Len(calls) = 1
            /\ Len(seeded) = 1
    /\ (ret.op = "tuple_variant" /\ EnumPayload # None
          /\ EnumPayload[2][1] # "Sequence") =>
            /\ ret.r = Err(<<"InvalidType", Classified(EnumPayload[2]), "tuple variant">>)
            /\ Len(calls) = 1
            /\ Len(seeded) = 1
    /\ (ret.op = "struct_variant" /\ EnumPayload # None
          /\ EnumPayload[2][1] # "Mapping") =>
            /\ ret.r = Err(<<"InvalidType", Classified(EnumPayload[2]), "struct variant">>)
            /\ Len(calls) = 1
            /\ Len(seeded) = 1
    /\ (ret.op = "newtype_variant_seed" /\ EnumPayload # None) =>
            /\ seeded = <<EnumTag, EnumPayload[2]>>
            /\ ret.r = Deserialize(ret.seed, EnumPayload[2])
            /\ Len(calls) = 1

C7_Witness ==
    /\ ret.op = "struct_variant"
    /\ EnumPayload # None
    /\ EnumPayload[2][1] = "Sequence"
    /\ ret.r = Err(<<"InvalidType", <<"Seq", <<>>>>, "struct variant">>)

\* C8: deserialize_option invokes visit_none exactly when the value is Null
\* and otherwise visit_some with the value itself, not unwrapped: Null
\* decodes to absent, and any other value, decoded as an optional Value, to
\* present(that value).
C8_Option ==
    entry = "deserialize_option" =>
        IF self = Null
        THEN calls = <<Call("visit_none", <<>>)>> /\ result = Ok(None) /\ seeded = <<>>
        ELSE /\ calls = <<Call("visit_some", self)>>
             /\ seeded = <<self>>
             /\ (ret.seed = "Value" => result = Ok(Some(self)))

C8_Witness ==
    /\ entry = "deserialize_option"
    /\ self = I64(I64Lit(5))
    /\ calls = <<Call("visit_some", I64(I64Lit(5)))>>
    /\ result = Ok(Some(I64(I64Lit(5))))

\* the u64 a string of decimal digits denotes (the last 64 bits of it)
DigitValue(c) == CHOOSE d \in 0..9 : <<"0", "1", "2", "3", "4", "5", "6", "7", "8", "9">>[d + 1] = c
RECURSIVE TimesTenPlus(_, _)
TimesTenPlus(u, c) ==
    IF u = <<>> THEN <<>>
    ELSE LET t == u[Len(u)] * 10 + c
         IN Append(TimesTenPlus(SubSeq(u, 1, Len(u) - 1), t \div 65536), t % 65536)
RECURSIVE ParseDecimal(_)
ParseDecimal(str) ==
    IF str = <<>> THEN <<0, 0, 0, 0>>
    ELSE TimesTenPlus(ParseDecimal(SubSeq(str, 1, Len(str) - 1)), DigitValue(str[Len(str)]))

\* C9: visit_u64 never fails; a u64 up to 2^63 - 1 (top bit clear) becomes
\* I64 of the same number, never a negative one; a larger u64 becomes the
\* String of its decimal digits: digits only, no leading zero, at most 20,
\* denoting exactly that number.
C9_NumericFallback ==
    (entry = "visit_u64" /\ pc = "done") =>
        /\ result[1] = "Ok"
        /\ IF self[1] < 32768
           THEN result[2] = <<"I64", self>>
           ELSE /\ result[2][1] = "String"
                /\ Len(result[2][2]) \in 1..20
                /\ \A i \in 1..Len(result[2][2]) :
                     result[2][2][i] \in {"0", "1", "2", "3", "4", "5", "6", "7", "8", "9"}
                /\ result[2][2][1] # "0"
                /\ ParseDecimal(result[2][2]) = self

C9_Witness ==
    /\ entry = "visit_u64"
    /\ self = <<65535, 65535, 65535, 65535>>
    /\ result = Ok(String(<<"1", "8", "4", "4", "6", "7", "4", "4", "0", "7",
                            "3", "7", "0", "9", "5", "5", "1", "6", "1", "5">>))

\* C10: a struct-variant payload's visitor that returns success gets that
\* success back from struct_variant however many entries it left, while a
\* tuple-variant payload's visitor that leaves elements gets InvalidLength
\* from tuple_variant, and a Mapping decoded through Value::deserialize_any
\* with entries left gets InvalidLength.
C10_Asymmetry ==
    /\ (ret.op = "struct_variant" /\ site = "MapDeserializer" /\ IsOk(returned)) =>
            ret.r = returned
    /\ (ret.op = "tuple_variant" /\ site = "SeqDeserializer" /\ IsOk(returned)
          /\ Len(iter) > 0) =>
            ret.r = Err(<<"InvalidLength", Len(EnumPayload[2][2]), "fewer elements in sequence">>)
    /\ (site = "Value" /\ self[1] = "Mapping" /\ IsOk(returned) /\ Len(iter) > 0) =>
            result = Err(<<"InvalidLength", Len(self[2]), "fewer elements in map">>)

C10_Witness ==
    /\ ret.op = "struct_variant"
    /\ site = "MapDeserializer"
    /\ Len(EnumPayload[2][2]) = 2
    /\ Len(iter) = 1
    /\ IsOk(ret.r)

---------------------------------------------------------------------------
\* the items of a Sequence (its elements) or of a Mapping (each entry's key,
\* then its value), in source order
RECURSIVE ItemsOf(_, _)
ItemsOf(tag, list) ==
    IF list = <<>> THEN <<>>
    ELSE IF tag = "Sequence" THEN list
    ELSE <<Head(list)[1], Head(list)[2]>> \o ItemsOf(tag, Tail(list))

\* how many positions of the sequence q hold x
Occurrences(q, x) == Cardinality({i \in 1..Len(q) : q[i] = x})

\* C11: whenever Value::deserialize_any on a Sequence or Mapping returns
\* success, every element of the sequence, and every key and every value of
\* the mapping, was handed to a seed exactly once, whatever calls the visitor
\* made.
C11_ExactlyOnce ==
    (entry = "deserialize_any" /\ self[1] \in {"Sequence", "Mapping"}
       /\ pc = "done" /\ IsOk(result)) =>
        /\ Len(seeded) = Len(ItemsOf(self[1], self[2]))
        /\ \A i \in 1..Len(seeded) :
             Occurrences(seeded, seeded[i]) = Occurrences(ItemsOf(self[1], self[2]), seeded[i])

\* the list the visitor's decoder was built over: the Sequence or Mapping
\* itself, or the enum payload's
Source == IF site = "Value" THEN self[2] ELSE EnumPayload[2][2]

\* C12: on a Mapping Decoder over n entries the i-th next_key (i <= n) hands
\* the key of the i-th entry, in insertion order, to its seed and returns
\* what the seed returned; a next_value that finds the slot filled hands the
\* value of the entry last taken to its seed (for a visitor that alternates,
\* the entry of the next_key just before); the pending slot is non-empty
\* exactly between a next_key that took an entry and the next next_value;
\* a next_key after the n-th returns exhausted and leaves the slot as it is.
C12_Pairing ==
    [][/\ (NextKeySeed /\ nexts < len) =>
             /\ seeded' = Append(seeded, Source[nexts'][1])
             /\ ret'.r = MapSome(Deserialize(ret'.seed, Source[nexts'][1]))
             /\ value' = Some(Source[nexts'][2])
       /\ (NextKeySeed /\ nexts >= len) =>
             /\ ret'.r = Ok(None)
             /\ value' = value
             /\ seeded' = seeded
       /\ (NextValueSeed /\ keys_since \cap {"Some", "Err"} # {}) =>
             LET i == IF nexts <= len THEN nexts ELSE len
             IN /\ seeded' = Append(seeded, Source[i][2])
                /\ ret'.r = Deserialize(ret'.seed, Source[i][2])
                /\ value' = None
       /\ pc' = "visit_map" =>
             (value'[1] = "Some" <=> keys_since' \cap {"Some", "Err"} # {})]_vars

\* key, value, key, value on a Mapping of two entries, then the third
\* next_key
C12_Witness ==
    /\ pc = "visit_map"
    /\ len = 2
    /\ nexts = 3
    /\ ret.op = "next_key_seed"
    /\ ret.r = Ok(None)
    /\ value = None
    /\ seeded = ItemsOf("Mapping", Source)
    /\ Source[1][2] # Source[2][2]

\* C13 as stated: once a decoder operation has failed during a decode (a
\* seed handed an item did not return a value), the top-level decode returns
\* no success, and when that failure is the only one and the last thing the
\* visitor saw, the decode returns that failure.
C13_FirstFailureReturned ==
    (entry = "deserialize_any" /\ pc = "done" /\ result[1] # "Panic"
       /\ Len(seeded) > Len(got)) =>
        /\ IsErr(result)
        /\ (IsErr(ret.r) /\ Len(seeded) = Len(got) + 1) => result = ret.r

\* C13, amended: a seed's failure inside next / next_key / next_value is
\* what that operation returns to the visitor, unchanged; a failure the
\* visitor's sequence or map callback returns is what the Bridge (and
\* tuple_variant, struct_variant) returns, unchanged, also while items
\* remain: not InvalidLength and never a success; a failure inside
\* visit_some is what deserialize_option returns.  Whether a failed decoder
\* operation ends the decode is the visitor's choice.
C13_ErrorsPassedOn ==
    /\ (ret.op = "next_element_seed" /\ nexts <= len) =>
          ret.r = MapSome(Deserialize(ret.seed, Source[nexts]))
    /\ (ret.op = "next_key_seed" /\ nexts <= len) =>
          ret.r = MapSome(Deserialize(ret.seed, Source[nexts][1]))
    /\ (ret.op = "next_value_seed" /\ ret.r[1] # "Panic") =>
          ret.r = Deserialize(ret.seed, seeded[Len(seeded)])
    /\ (IsErr(returned) /\ site = "Value") =>
          /\ pc = "done"
          /\ result = returned
    /\ (IsErr(returned) /\ site \in {"SeqDeserializer", "MapDeserializer"}
          /\ ret.op \in {"tuple_variant", "struct_variant"}) =>
          ret.r = returned
    /\ (entry = "deserialize_option" /\ IsErr(ret.r)) => result = ret.r

\* the seed of the first next fails, the visitor returns that error with an
\* element left, and the decode returns it
C13_Witness ==
    /\ entry = "deserialize_any"
    /\ pc = "done"
    /\ self[1] = "Sequence"
    /\ nexts = 1
    /\ Len(iter) = 1
    /\ IsErrOfKind(ret.r, "InvalidType")
    /\ returned = ret.r
    /\ result = ret.r

\* C14: SeqDeserializer::deserialize_any, reached through tuple_variant, on
\* an empty sequence invokes visit_unit, never visit_seq, and returns what it
\* returned; on a sequence of n > 0 elements it invokes visit_seq, and when
\* that returns success it returns the visitor's result if the cursor is
\* exhausted and otherwise InvalidLength carrying n with "fewer elements in
\* sequence" (a failure of visit_seq is returned as it is).
C14_SeqDispatch ==
    site = "SeqDeserializer" =>
        /\ len = Len(Source)
        /\ Len(calls) = 2
        /\ calls[1][1] = "visit_enum"
        /\ IF Len(Source) = 0
           THEN /\ calls[2] = Call("visit_unit", <<>>)
                /\ ret.op = "tuple_variant"
                /\ ret.r = returned
                /\ nexts = 0
           ELSE /\ calls[2] = Call("visit_seq", <<>>)
                /\ ret.op = "tuple_variant" =>
                     IF IsOk(returned) /\ Len(iter) > 0
                     THEN ret.r = Err(<<"InvalidLength", Len(Source),
                                        "fewer elements in sequence">>)
                     ELSE ret.r = returned

C14_Witness ==
    /\ site = "SeqDeserializer"
    /\ Source = <<>>
    /\ calls[2] = Call("visit_unit", <<>>)
    /\ ret.op = "tuple_variant"
    /\ IsOk(ret.r)

\* C15: on a Sequence Decoder over n elements after k next calls, and on a
\* Mapping Decoder over n entries after k next_key calls (whatever next_value
\* calls were made in between and whether or not seeds failed), size_hint
\* returns exactly max(n - k, 0), and it changes neither the cursor nor the
\* pending slot.
C15_SizeHint ==
    [][SizeHint =>
          /\ len = Len(Source)
          /\ hint' = Some(IF nexts <= len THEN len - nexts ELSE 0)
          /\ UNCHANGED <<iter, value, nexts, seeded, got, ret>>]_vars

\* size_hint after more next_key calls than the Mapping has entries
C15_Witness ==
    /\ pc = "visit_map"
    /\ len = 2
    /\ nexts = 3
    /\ Len(seeded) > Len(got)
    /\ hint = Some(0)

\* the callback the claim's table gives each Value shape
TableCallback(val) ==
    CASE val[1] = "Null" -> <<"visit_unit", <<>>>>
      [] val[1] = "Bool" -> <<"visit_bool", val[2]>>
      [] val[1] = "I64" -> <<"visit_i64", val[2]>>
      [] val[1] = "F64" -> <<"visit_f64", val[2]>>
      [] val[1] = "String" -> <<"visit_string", val[2]>>
      [] val[1] = "Sequence" -> <<"visit_seq", <<>>>>
      [] val[1] = "Mapping" -> <<"visit_map", <<>>>>

\* C16: each method generated by forward_to_deserialize_any!, on every
\* Value, invokes one visitor callback, the one deserialize_any invokes and
\* with the same argument: Null -> visit_unit, Bool -> visit_bool, I64 ->
\* visit_i64 with all 64 bits, F64 -> visit_f64, String -> visit_string with
\* the owned string, Sequence -> visit_seq and Mapping -> visit_map with a
\* decoder over all its items; deserialize_newtype_struct hands the Value
\* itself, unchanged, to visit_newtype_struct.
C16_HintIndependent ==
    /\ entry \in ForwardedMethods \cup {"deserialize_any"} =>
          /\ calls = <<TableCallback(self)>>
          /\ self[1] \in {"Sequence", "Mapping"} =>
                /\ site = "Value"
                /\ len = Len(self[2])
                /\ iter = SubSeq(self[2], Taken + 1, Len(self[2]))
                /\ nexts >= Taken
          /\ self[1] \notin {"Sequence", "Mapping"} =>
                /\ pc = "done"
                /\ seeded = <<>>
                /\ result \in {Ok(<<TableCallback(self)>>), Err(<<"Custom", "visitor">>)}
    /\ entry = "deserialize_newtype_struct" =>
          /\ calls = <<Call("visit_newtype_struct", self)>>
          /\ seeded = <<self>>
          /\ result = Deserialize(ret.seed, self)

\* deserialize_i8 on an I64 that does not fit eight bits
C16_Witness ==
    /\ entry = "deserialize_i8"
    /\ self = I64(<<65535, 65535, 65535, 65535>>)
    /\ calls = <<Call("visit_i64", <<65535, 65535, 65535, 65535>>)>>
    /\ IsOk(result)

\* the nodes of a Value tree: the Value itself, and the nodes of each element
\* of a Sequence and of each key and each value of a Mapping
RECURSIVE NodeCount(_)
RECURSIVE NodeCountList(_, _)
NodeCountList(tag, list) ==
    IF list = <<>> THEN 0
    ELSE (IF tag = "Sequence" THEN NodeCount(Head(list))
          ELSE NodeCount(Head(list)[1]) + NodeCount(Head(list)[2]))
         + NodeCountList(tag, Tail(list))
NodeCount(val) ==
    1 + (IF val[1] \in {"Sequence", "Mapping"} THEN NodeCountList(val[1], val[2]) ELSE 0)

\* C17: a decoder over n items answers the first n next (next_key) calls
\* with an element or its seed's error, and every later call with
\* exhausted, its cursor staying empty; decoding a Value tree into the Value
\* target succeeds after as many decode requests as the tree has nodes; and
\* a decode whose visitor asks until it is told exhausted and then returns
\* comes to an end.
C17_Terminates ==
    /\ [](ret.op \in {"next_element_seed", "next_key_seed"} =>
            /\ len = Len(self[2])
            /\ (Outcome(ret.r) = "None") <=> (nexts > len)
            /\ (nexts >= len) => (iter = <<>>))
    /\ []((entry = "Value::deserialize" /\ pc = "done") =>
            /\ IsOk(result)
            /\ Requests(self) = NodeCount(self))
    /\ <>(pc = "done")

\* two next calls after the one that was told exhausted, on a Sequence of
\* two elements, and the decode over
C17_Witness ==
    /\ entry = "deserialize_any"
    /\ self[1] = "Sequence"
    /\ len = 2
    /\ nexts = 4
    /\ ret.r = Ok(None)
    /\ pc = "done"

=============================================================================
